---------------------------- MODULE Spec2Model ----------------------------
(***************************************************************************)
(* A model of src/api.py: the RSS warning extractor (get_cwa_warnings),    *)
(* the ATCF/TCVITALS line parser (parse_atcf_line) and the TCVITALS        *)
(* endpoint (get_international_typhoon_data).                              *)
(*                                                                         *)
(* A Python str is a sequence of Unicode code points (<<87, 80>> is "WP"), *)
(* so that comparison, slicing, substring search and parsing are computed  *)
(* the way Python computes them.  A line of the bulletin is the list       *)
(* line.strip().split(',') with every part stripped.                       *)
(***************************************************************************)
EXTENDS Integers, Sequences, FiniteSets, TLC

\* Python's None.  Every other value of the model that can be None is a record.
None == [none |-> TRUE]

(***************************************************************************)
(* str helpers                                                             *)
(***************************************************************************)
IsDigit(c) == c \in 48..57

DigitVal(c) == c - 48

\* s[:-1]
DropLast(s) == IF Len(s) = 0 THEN <<>> ELSE SubSeq(s, 1, Len(s) - 1)

\* s.endswith(c) for a one-character c
endswith(s, c) == Len(s) > 0 /\ s[Len(s)] = c

\* s.startswith(c) for a one-character c
startswith(s, c) == Len(s) > 0 /\ s[1] = c

\* keyword in text
Contains(text, keyword) ==
    \E i \in 0..(Len(text) - Len(keyword)) :
        \A j \in 1..Len(keyword) : text[i + j] = keyword[j]

\* a < b for two str (code point order, a proper prefix first)
RECURSIVE StrLess(_, _)
StrLess(a, b) ==
    IF Len(b) = 0 THEN FALSE
    ELSE IF Len(a) = 0 THEN TRUE
    ELSE IF a[1] # b[1] THEN a[1] < b[1]
    ELSE StrLess(Tail(a), Tail(b))

\* the value of a run of decimal digits
RECURSIVE DigitsValue(_)
DigitsValue(s) ==
    IF Len(s) = 0 THEN 0
    ELSE 10 * DigitsValue(DropLast(s)) + DigitVal(s[Len(s)])

AllDigits(s) == Len(s) > 0 /\ \A i \in 1..Len(s) : IsDigit(s[i])

\* The body of a numeric literal: an optional sign, then digits.
Unsigned(s) == IF Len(s) > 0 /\ s[1] \in {43, 45} THEN Tail(s) ELSE s

\* int(s) and float(s) raise ValueError on anything else.  (Of the literals
\* Python accepts, the model's fields use the signed decimal ones.)
IsNumeric(s) == AllDigits(Unsigned(s))

NumericValue(s) ==
    IF Len(s) > 0 /\ s[1] = 45 THEN 0 - DigitsValue(Unsigned(s))
    ELSE DigitsValue(Unsigned(s))

(***************************************************************************)
(* datetime.strptime(dt_str, '%Y%m%d%H').  The format compiles to the      *)
(* regular expression                                                      *)
(*   (\d\d\d\d)(1[0-2]|0[1-9]|[1-9])(3[0-1]|[1-2]\d|0[1-9]|[1-9]| [1-9])   *)
(*   (2[0-3]|[0-1]\d|\d)                                                   *)
(* matched at the start of the string with backtracking, the alternatives  *)
(* tried in the order written; text left over after the match, and a date  *)
(* the calendar does not have, are ValueErrors.                            *)
(***************************************************************************)
NoMatch == [matched |-> FALSE]

\* two digits at p whose value is in lo..hi
TwoDigits(s, p, lo, hi) ==
    /\ p + 1 <= Len(s)
    /\ IsDigit(s[p]) /\ IsDigit(s[p + 1])
    /\ 10 * DigitVal(s[p]) + DigitVal(s[p + 1]) \in lo..hi

OneDigit(s, p, lo, hi) ==
    p <= Len(s) /\ IsDigit(s[p]) /\ DigitVal(s[p]) \in lo..hi

Two(s, p) == [val |-> 10 * DigitVal(s[p]) + DigitVal(s[p + 1]), next |-> p + 2]

One(s, p) == [val |-> DigitVal(s[p]), next |-> p + 1]

\* %H at p: 2[0-3] | [0-1]\d | \d
HourAlts(s, p) ==
    (IF TwoDigits(s, p, 20, 23) THEN <<Two(s, p)>> ELSE <<>>)
    \o (IF TwoDigits(s, p, 0, 19) THEN <<Two(s, p)>> ELSE <<>>)
    \o (IF OneDigit(s, p, 0, 9) THEN <<One(s, p)>> ELSE <<>>)

\* %d at p: 3[0-1] | [1-2]\d | 0[1-9] | [1-9] | " "[1-9]
DayAlts(s, p) ==
    (IF TwoDigits(s, p, 30, 31) THEN <<Two(s, p)>> ELSE <<>>)
    \o (IF TwoDigits(s, p, 10, 29) THEN <<Two(s, p)>> ELSE <<>>)
    \o (IF TwoDigits(s, p, 1, 9) THEN <<Two(s, p)>> ELSE <<>>)
    \o (IF OneDigit(s, p, 1, 9) THEN <<One(s, p)>> ELSE <<>>)
    \o (IF p + 1 <= Len(s) /\ s[p] = 32 /\ OneDigit(s, p + 1, 1, 9)
        THEN <<[val |-> DigitVal(s[p + 1]), next |-> p + 2]>> ELSE <<>>)

\* %m at p: 1[0-2] | 0[1-9] | [1-9]
MonthAlts(s, p) ==
    (IF TwoDigits(s, p, 10, 12) THEN <<Two(s, p)>> ELSE <<>>)
    \o (IF TwoDigits(s, p, 1, 9) THEN <<Two(s, p)>> ELSE <<>>)
    \o (IF OneDigit(s, p, 1, 9) THEN <<One(s, p)>> ELSE <<>>)

\* The match the backtracking regex engine returns: the first month
\* alternative after which a day matches, the first day alternative after
\* which an hour matches, and the first hour alternative.
RegexMatch(s) ==
    IF ~(Len(s) >= 4 /\ \A i \in 1..4 : IsDigit(s[i])) THEN NoMatch
    ELSE
      LET ms == MonthAlts(s, 5)
          DayOk(m) == \E di \in 1..Len(DayAlts(s, m.next)) :
                          Len(HourAlts(s, DayAlts(s, m.next)[di].next)) > 0
          mis == {i \in 1..Len(ms) : DayOk(ms[i])}
      IN IF mis = {} THEN NoMatch
         ELSE
           LET m == ms[CHOOSE i \in mis : \A k \in mis : i <= k]
               ds == DayAlts(s, m.next)
               dis == {i \in 1..Len(ds) : Len(HourAlts(s, ds[i].next)) > 0}
               d == ds[CHOOSE i \in dis : \A k \in dis : i <= k]
               h == HourAlts(s, d.next)[1]
           IN [matched |-> TRUE, Y |-> DigitsValue(SubSeq(s, 1, 4)),
               m |-> m.val, d |-> d.val, H |-> h.val, end |-> h.next - 1]

IsLeap(y) == y % 4 = 0 /\ (y % 100 # 0 \/ y % 400 = 0)

DaysInMonth(y, m) ==
    IF m = 2 THEN (IF IsLeap(y) THEN 29 ELSE 28)
    ELSE IF m \in {4, 6, 9, 11} THEN 30 ELSE 31

\* strptime as it would be if 8 digits were read as %y%m%d%H, the century
\* inferred (20 for a year below 50, else 19).
strptime_century_inferred(dt_str) ==
    LET found == RegexMatch(dt_str)
        yy == DigitsValue(SubSeq(dt_str, 1, 2))
        m == DigitsValue(SubSeq(dt_str, 3, 4))
        d == DigitsValue(SubSeq(dt_str, 5, 6))
        h == DigitsValue(SubSeq(dt_str, 7, 8))
        y == IF yy < 50 THEN 2000 + yy ELSE 1900 + yy
    IN IF Len(dt_str) = 8 /\ AllDigits(dt_str)
       THEN IF m \in 1..12 /\ d \in 1..DaysInMonth(y, m) /\ h \in 0..23
            THEN [dt |-> <<y, m, d, h>>] ELSE None
       ELSE IF ~found.matched THEN None
       ELSE IF found.end # Len(dt_str) THEN None
       ELSE IF found.Y < 1 THEN None
       ELSE IF found.d > DaysInMonth(found.Y, found.m) THEN None
       ELSE [dt |-> <<found.Y, found.m, found.d, found.H>>]

\* The datetime, as <<year, month, day, hour>>, or None for a ValueError.
strptime(dt_str) ==
    LET found == RegexMatch(dt_str)
    IN IF ~found.matched THEN None
       ELSE IF found.end # Len(dt_str) THEN None
       ELSE IF found.Y < 1 THEN None
       ELSE IF found.d > DaysInMonth(found.Y, found.m) THEN None
       ELSE [dt |-> <<found.Y, found.m, found.d, found.H>>]

(***************************************************************************)
(* datetime.isoformat() of a datetime with zero minutes and seconds, as    *)
(* the str "YYYY-MM-DDTHH:00:00": every number is zero-padded to its width.*)
(***************************************************************************)
Pad2(n) == <<48 + (n \div 10), 48 + (n % 10)>>

Pad4(n) == Pad2(n \div 100) \o Pad2(n % 100)

isoformat(dt) ==
    Pad4(dt[1]) \o <<45>> \o Pad2(dt[2]) \o <<45>> \o Pad2(dt[3]) \o <<84>>
    \o Pad2(dt[4]) \o <<58, 48, 48, 58, 48, 48>>

(***************************************************************************)
(* parse_atcf_line                                                         *)
(***************************************************************************)
\* The field count below which a line is rejected.
MinParts == 28

\* parts[k] of the Python list (0-based)
Part(parts, k) == parts[k + 1]

\* "INVEST"
INVEST == <<73, 78, 86, 69, 83, 84>>

\* round(max_wind_knots * 0.514444, 1), in tenths of a metre per second
knots_to_ms(max_wind_knots) == (max_wind_knots * 514444 + 50000) \div 100000

\* int(s), or 0 where int(s) raises
int_or_zero(s) == IF IsNumeric(s) THEN NumericValue(s) ELSE 0

\* parse_atcf_line as it would be if a non-numeric wind or pressure were
\* replaced by 0 instead of raising.
parse_atcf_line_defaults(parts) ==
    IF Len(parts) < MinParts THEN None
    ELSE
      LET basin == Part(parts, 0)
          cyclone_num == Part(parts, 1)
          dt_object == strptime(Part(parts, 2))
          lat_str == Part(parts, 6)
          lon_str == Part(parts, 7)
          typhoon_name == Part(parts, 27)
      IN IF dt_object = None THEN None
         ELSE IF ~IsNumeric(DropLast(lat_str)) THEN None
         ELSE IF ~IsNumeric(DropLast(lon_str)) THEN None
         ELSE IF ~IsNumeric(Part(parts, 5)) THEN None
         ELSE
           [time |-> isoformat(dt_object.dt) \o <<90>>,
            lat |-> IF endswith(lat_str, 83)
                    THEN 0 - NumericValue(DropLast(lat_str))
                    ELSE NumericValue(DropLast(lat_str)),
            lon |-> IF endswith(lon_str, 87)
                    THEN 0 - NumericValue(DropLast(lon_str))
                    ELSE NumericValue(DropLast(lon_str)),
            windSpeed_knots |-> int_or_zero(Part(parts, 8)),
            windSpeed_ms |-> knots_to_ms(int_or_zero(Part(parts, 8))),
            pressure_hpa |-> int_or_zero(Part(parts, 9)),
            forecastPeriod_hours |-> NumericValue(Part(parts, 5)),
            typhoonName |-> IF typhoon_name = INVEST
                            THEN INVEST \o <<32>> \o cyclone_num
                            ELSE typhoon_name,
            cycloneId |-> basin \o cyclone_num]

\* The point of one line, or None.  lat and lon are kept in tenths of a
\* degree (the code divides the parsed number by 10.0).  Every ValueError
\* of the body is caught by the one handler that returns None.
parse_atcf_line(parts) ==
    IF Len(parts) < MinParts THEN None
    ELSE
      LET basin == Part(parts, 0)
          cyclone_num == Part(parts, 1)
          dt_object == strptime(Part(parts, 2))
          lat_str == Part(parts, 6)
          lon_str == Part(parts, 7)
          typhoon_name == Part(parts, 27)
      IN IF dt_object = None THEN None
         ELSE IF ~IsNumeric(DropLast(lat_str)) THEN None
         ELSE IF ~IsNumeric(DropLast(lon_str)) THEN None
         ELSE IF ~IsNumeric(Part(parts, 8)) THEN None
         ELSE IF ~IsNumeric(Part(parts, 9)) THEN None
         ELSE IF ~IsNumeric(Part(parts, 5)) THEN None
         ELSE
           [time |-> isoformat(dt_object.dt) \o <<90>>,
            lat |-> IF endswith(lat_str, 83)
                    THEN 0 - NumericValue(DropLast(lat_str))
                    ELSE NumericValue(DropLast(lat_str)),
            lon |-> IF endswith(lon_str, 87)
                    THEN 0 - NumericValue(DropLast(lon_str))
                    ELSE NumericValue(DropLast(lon_str)),
            windSpeed_knots |-> NumericValue(Part(parts, 8)),
            windSpeed_ms |-> knots_to_ms(NumericValue(Part(parts, 8))),
            pressure_hpa |-> NumericValue(Part(parts, 9)),
            forecastPeriod_hours |-> NumericValue(Part(parts, 5)),
            typhoonName |-> IF typhoon_name = INVEST
                            THEN INVEST \o <<32>> \o cyclone_num
                            ELSE typhoon_name,
            cycloneId |-> basin \o cyclone_num]

(***************************************************************************)
(* get_international_typhoon_data: the candidate cycle times.  A datetime  *)
(* of this part is a count of hours from 00 UTC of the day before the      *)
(* request, so today's 00 UTC is 24; minutes and seconds of "now" do not   *)
(* change any comparison with a whole hour.                                *)
(***************************************************************************)
HoursPerDay == 24

\* dt.replace(hour=hour, minute=0, second=0, microsecond=0)
replace_hour(dt, hour) == (dt \div HoursPerDay) * HoursPerDay + hour

\* The cycle hours the two loops go through, in order.
CycleHours == <<0, 6, 12, 18>>

\* list.sort(reverse=True) of a list of datetimes
RECURSIVE sort_reverse(_)
sort_reverse(seq) ==
    IF Len(seq) = 0 THEN <<>>
    ELSE LET rest == sort_reverse(DropLast(seq))
             x == seq[Len(seq)]
             LaterOrEqual(y) == y >= x
             Earlier(y) == y < x
         IN SelectSeq(rest, LaterOrEqual) \o <<x>> \o SelectSeq(rest, Earlier)

\* possible_times, as built and sorted by the handler
PossibleTimes(now) ==
    LET yesterday_utc == now - HoursPerDay
        NotLater(dt) == dt <= now
        today == SelectSeq([i \in 1..4 |-> replace_hour(now, CycleHours[i])], NotLater)
        before == [i \in 1..4 |-> replace_hour(yesterday_utc, CycleHours[i])]
    IN sort_reverse(today \o before)

(***************************************************************************)
(* get_international_typhoon_data: grouping, routing, selection            *)
(***************************************************************************)
TrackPoint(parsed_point) ==
    [lat |-> parsed_point.lat,
     lon |-> parsed_point.lon,
     time |-> parsed_point.time,
     windSpeed_knots |-> parsed_point.windSpeed_knots,
     windSpeed_ms |-> parsed_point.windSpeed_ms,
     pressure_hpa |-> parsed_point.pressure_hpa]

ForecastPoint(parsed_point) ==
    [lat |-> parsed_point.lat,
     lon |-> parsed_point.lon,
     time |-> parsed_point.time,
     windSpeed_knots |-> parsed_point.windSpeed_knots,
     windSpeed_ms |-> parsed_point.windSpeed_ms,
     pressure_hpa |-> parsed_point.pressure_hpa,
     forecastPeriod_hours |-> parsed_point.forecastPeriod_hours]

NewGroup(parsed_point) ==
    [pastTrack |-> <<>>,
     forecastTrack |-> <<>>,
     currentPosition |-> None,
     name |-> parsed_point.typhoonName,
     id |-> parsed_point.cycloneId,
     agency |-> "JTWC (via NCEP)"]

\* RoutePoint as it would be with "else" for "elif ... > 0".
RoutePoint_else(group, parsed_point) ==
    IF parsed_point.forecastPeriod_hours = 0
    THEN [group EXCEPT !.pastTrack = Append(@, TrackPoint(parsed_point)),
                       !.currentPosition = TrackPoint(parsed_point)]
    ELSE [group EXCEPT !.forecastTrack = Append(@, ForecastPoint(parsed_point))]

\* The group of a point after the point is classified by its forecast period.
RoutePoint(group, parsed_point) ==
    IF parsed_point.forecastPeriod_hours = 0
    THEN [group EXCEPT !.pastTrack = Append(@, TrackPoint(parsed_point)),
                       !.currentPosition = TrackPoint(parsed_point)]
    ELSE IF parsed_point.forecastPeriod_hours > 0
    THEN [group EXCEPT !.forecastTrack = Append(@, ForecastPoint(parsed_point))]
    ELSE group

\* all_typhoons_parsed_data after an accepted line
AddPoint(data, parsed_point) ==
    LET cyclone_id == parsed_point.cycloneId
        group == IF cyclone_id \in DOMAIN data THEN data[cyclone_id]
                 ELSE NewGroup(parsed_point)
    IN [k \in DOMAIN data \cup {cyclone_id} |->
          IF k = cyclone_id THEN RoutePoint(group, parsed_point) ELSE data[k]]

\* list.sort(key=lambda x: x["time"]): stable, ascending by the time str
RECURSIVE sort_by_time(_)
sort_by_time(track) ==
    IF Len(track) = 0 THEN <<>>
    ELSE LET rest == sort_by_time(DropLast(track))
             x == track[Len(track)]
             NotAfter(y) == ~StrLess(x.time, y.time)
             After(y) == StrLess(x.time, y.time)
         IN SelectSeq(rest, NotAfter) \o <<x>> \o SelectSeq(rest, After)

\* max(all_typhoons_parsed_data.keys())
max_key(data) ==
    CHOOSE k \in DOMAIN data : \A j \in DOMAIN data : j = k \/ StrLess(j, k)

\* SelectTyphoon as it would be without the reassignment of currentPosition.
SelectTyphoon_current_kept(data) ==
    LET selected_typhoon == data[max_key(data)]
    IN [selected_typhoon EXCEPT
          !.pastTrack = sort_by_time(selected_typhoon.pastTrack),
          !.forecastTrack = sort_by_time(selected_typhoon.forecastTrack)]

\* The selected typhoon: its tracks sorted, its currentPosition reassigned.
SelectTyphoon(data) ==
    LET selected_typhoon == data[max_key(data)]
        past == sort_by_time(selected_typhoon.pastTrack)
        forecast == sort_by_time(selected_typhoon.forecastTrack)
    IN [selected_typhoon EXCEPT
          !.pastTrack = past,
          !.forecastTrack = forecast,
          !.currentPosition = IF Len(past) > 0 THEN past[Len(past)] ELSE None]

\* The handler's answer once the lines are consumed.
FinalResponse(data) ==
    IF DOMAIN data # {}
    THEN [status |-> 200, success |-> TRUE, typhoon |-> SelectTyphoon(data)]
    ELSE [status |-> 200, success |-> FALSE]

(***************************************************************************)
(* The bulletin lines the environment can send, as lists of stripped parts.*)
(***************************************************************************)
\* The longest bulletin, in lines.
MaxLines == 2

WP == <<87, 80>>
N14 == <<49, 52>>
N15 == <<49, 53>>
BEST == <<66, 69, 83, 84>>
OFCL == <<79, 70, 67, 76>>
MAWAR == <<77, 65, 87, 65, 82>>
\* "2025071506" and "2025071512": YYYYMMDDHH
DT06 == <<50, 48, 50, 53, 48, 55, 49, 53, 48, 54>>
DT12 == <<50, 48, 50, 53, 48, 55, 49, 53, 49, 50>>
\* "25071512" and "25100100": YYMMDDHH
YY071512 == <<50, 53, 48, 55, 49, 53, 49, 50>>
YY100100 == <<50, 53, 49, 48, 48, 49, 48, 48>>
\* "2025O71512" and "2025023012": neither encoding, and no day of the calendar
DTLetter == <<50, 48, 50, 53, 79, 55, 49, 53, 49, 50>>
DTFeb30 == <<50, 48, 50, 53, 48, 50, 51, 48, 49, 50>>
\* forecast periods "0", "12", "24", "-6"
TAU0 == <<48>>
TAU12 == <<49, 50>>
TAU24 == <<50, 52>>
TAUNEG == <<45, 54>>
\* "150N", "1250E", "65", "985"
LAT == <<49, 53, 48, 78>>
LON == <<49, 50, 53, 48, 69>>
VMAX == <<54, 53>>
MSLP == <<57, 56, 53>>
\* "15ZN", "12Z0E": no number before the compass letter; "XX": no number
BadLat == <<49, 53, 90, 78>>
BadLon == <<49, 50, 90, 48, 69>>
XX == <<88, 88>>

\* A line of 28 parts; the parts the parser does not read are empty.
MkLine(basin, num, dt, tech, tau, lat, lon, vmax, mslp, name) ==
    <<basin, num, dt, tech, <<>>, tau, lat, lon, vmax, mslp>>
    \o [i \in 1..17 |-> <<>>] \o <<name>>

GoodLine(num, dt, tech, tau, name) ==
    MkLine(WP, num, dt, tech, tau, LAT, LON, VMAX, MSLP, name)

\* Lines with every field well formed.
GoodLines ==
    {GoodLine(N15, dt, tech, tau, MAWAR) :
        dt \in {DT06, DT12}, tech \in {BEST, OFCL},
        tau \in {TAU0, TAU12, TAU24, TAUNEG}}
    \cup {GoodLine(N14, DT12, BEST, tau, INVEST) : tau \in {TAU0, TAUNEG}}

\* Lines with one field off: an 8-digit timestamp, an unparsable timestamp,
\* a bad coordinate, a non-numeric wind, pressure or forecast period, and a
\* line cut short.
OddLines ==
    {GoodLine(N15, dt, BEST, TAU0, MAWAR) :
        dt \in {YY071512, YY100100, DTLetter, DTFeb30}}
    \cup {MkLine(WP, N15, DT12, BEST, TAU0, BadLat, LON, VMAX, MSLP, MAWAR),
          MkLine(WP, N15, DT12, BEST, TAU0, LAT, BadLon, VMAX, MSLP, MAWAR),
          MkLine(WP, N15, DT12, BEST, TAU0, LAT, LON, XX, MSLP, MAWAR),
          MkLine(WP, N15, DT12, BEST, TAU0, LAT, LON, VMAX, XX, MAWAR),
          MkLine(WP, N15, DT12, BEST, XX, LAT, LON, VMAX, MSLP, MAWAR),
          SubSeq(GoodLine(N15, DT12, BEST, TAU0, MAWAR), 1, 20)}

\* A blank line and a comment line ("#").
SkippedLines == {<< <<>> >>, << <<35>> >>}

Lines == GoodLines \cup OddLines \cup SkippedLines

\* Every line with what parse_atcf_line returns for it.
ParsedLines == {<<l, parse_atcf_line(l)>> : l \in Lines \ SkippedLines}

\* not line.strip() or line.strip().startswith('#')
IsSkipped(parts) ==
    \/ Len(parts) = 1 /\ parts[1] = <<>>
    \/ startswith(parts[1], 35)

(***************************************************************************)
(* get_cwa_warnings.  An <item> is a record of its four sub-elements; a    *)
(* sub-element is None when item.find returns None, and else a record of   *)
(* its text, which ElementTree gives as None for an element with no text.  *)
(***************************************************************************)
\* The most items of a feed.
MaxItems == 2

\* keywords_to_filter, in the order of the list
keywords_to_filter ==
    << <<35686, 22577>>,                                    \* 警報
       <<29305, 22577>>,                                    \* 特報
       <<35946, 40, 22823, 41, 38632, 29305, 22577>>,       \* 豪(大)雨特報
       <<20302, 28331, 29305, 22577>>,                      \* 低溫特報
       <<28611, 38695, 29305, 22577>>,                      \* 濃霧特報
       <<24375, 39080, 29305, 22577>>,                      \* 強風特報
       <<22823, 38647, 38632>>,                             \* 大雷雨
       <<22320, 38663>> >>                                  \* 地震

\* x.text if x is not None else ''
text_or_empty(element) == IF element # None THEN element.text ELSE <<>>

\* The loop over the keywords: "relevant", "irrelevant", or "TypeError" when
\* the in operator is given None.  In "keyword in title or keyword in
\* description" the description is looked at only when the title has not
\* the keyword.
RECURSIVE is_relevant(_, _, _)
is_relevant(title, description, keywords) ==
    IF Len(keywords) = 0 THEN "irrelevant"
    ELSE IF title = None THEN "TypeError"
    ELSE IF Contains(title, keywords[1]) THEN "relevant"
    ELSE IF description = None THEN "TypeError"
    ELSE IF Contains(description, keywords[1]) THEN "relevant"
    ELSE is_relevant(title, description, Tail(keywords))

\* The warning appended for an item.
Warning(item) ==
    [title |-> text_or_empty(item.title),
     link |-> text_or_empty(item.link),
     description |-> text_or_empty(item.description),
     pubDate |-> text_or_empty(item.pubDate)]

\* The sub-elements the environment can send: absent, without text, with text.
\* 陸上颱風警報, 低溫特報, 天氣預報
TitleElements ==
    <<None, [text |-> None],
      [text |-> <<38520, 19978, 39089, 39080, 35686, 22577>>],
      [text |-> <<20302, 28331, 29305, 22577>>],
      [text |-> <<22825, 27683, 38928, 22577>>]>>

\* 大雷雨即時訊息, 晴時多雲
DescriptionElements ==
    <<None, [text |-> None],
      [text |-> <<22823, 38647, 38632, 21363, 26178, 35338, 24687>>],
      [text |-> <<26228, 26178, 22810, 38642>>]>>

\* "/w1" (a link) and "Mon" (a date)
LinkElements == <<None, [text |-> None], [text |-> <<47, 119, 49>>]>>

PubDateElements == <<None, [text |-> None], [text |-> <<77, 111, 110>>]>>

\* How the request for the feed and the parse of its XML can end.
FeedOutcomes == {"ok", "request_error", "parse_error"}

(***************************************************************************)
(* State                                                                   *)
(***************************************************************************)
VARIABLES
    pc,                         \* where get_international_typhoon_data is
    now_utc,                    \* datetime.now(timezone.utc)
    possible_times,
    dt_index,                   \* the position of the fetch loop in possible_times
    response,
    tcvitals_url,
    fetched,                    \* history: every request sent, and how it ended
    line_num,                   \* the lines of atcf_lines consumed
    line,                       \* the line of the last iteration
    parsed_point,
    valid_lines,                \* history: the lines parse_atcf_line accepted
    all_typhoons_parsed_data,
    result,                     \* the response returned, None before
    rss_pc,                     \* where get_cwa_warnings is
    items,                      \* history: the <item>s of the feed gone through
    warnings,
    rss_result                  \* the response returned, None before

typhoon_vars == <<pc, now_utc, possible_times, dt_index, response, tcvitals_url,
                  fetched, line_num, line, parsed_point, valid_lines,
                  all_typhoons_parsed_data, result>>

rss_vars == <<rss_pc, items, warnings, rss_result>>

vars == <<typhoon_vars, rss_vars>>

\* The hours of today a request arrives at: the first and the last hour of
\* the day and of a cycle, and the hour of each later cycle.
NowHours == {0, 5, 6, 12, 18, 23}

NowTimes == {HoursPerDay + h : h \in NowHours}

\* How a request to the server can end.
Outcomes == {"ok", "http_error", "timeout"}

\* bool(response): a Response is true when its status is below 400.
Truthy(r) == r # None /\ r.ok

\* No request for /get-international-typhoon-data is being served.
TyphoonIdle ==
    /\ pc = "idle"
    /\ now_utc = None
    /\ possible_times = <<>>
    /\ dt_index = 1
    /\ response = None
    /\ tcvitals_url = None
    /\ fetched = <<>>
    /\ line_num = 0
    /\ line = <<>>
    /\ parsed_point = None
    /\ valid_lines = 0
    /\ all_typhoons_parsed_data = <<>>
    /\ result = None

\* No request for /get-cwa-warnings is being served.
RssIdle ==
    /\ rss_pc = "idle"
    /\ items = <<>>
    /\ warnings = <<>>
    /\ rss_result = None

(***************************************************************************)
(* A request for /get-international-typhoon-data.  The two except clauses  *)
(* that follow the function in the file (lines 372-379) belong to no try;  *)
(* the handler is modelled as its body is written, with no handler of its  *)
(* own for an exception.                                                   *)
(***************************************************************************)
Init ==
    /\ pc = "start"
    /\ now_utc \in NowTimes
    /\ possible_times = <<>>
    /\ dt_index = 1
    /\ response = None
    /\ tcvitals_url = None
    /\ fetched = <<>>
    /\ line_num = 0
    /\ line = <<>>
    /\ parsed_point = None
    /\ valid_lines = 0
    /\ all_typhoons_parsed_data = <<>>
    /\ result = None
    /\ RssIdle

\* The candidate times are built and sorted, newest first.
BuildPossibleTimes ==
    /\ pc = "start"
    /\ possible_times' = PossibleTimes(now_utc)
    /\ pc' = "fetch"
    /\ UNCHANGED <<now_utc, dt_index, response, tcvitals_url, fetched, line_num,
                   line, parsed_point, valid_lines, all_typhoons_parsed_data,
                   result, rss_vars>>

\* FetchAttempt as it would be without the break after a success.
FetchAttempt_no_break ==
    /\ pc = "fetch"
    /\ dt_index <= Len(possible_times)
    /\ \E outcome \in Outcomes :
        LET dt_to_fetch == possible_times[dt_index]
        IN /\ fetched' = Append(fetched, [dt |-> dt_to_fetch, ok |-> outcome = "ok"])
           /\ response' = IF outcome = "ok"
                          THEN [url |-> dt_to_fetch, ok |-> TRUE] ELSE None
           /\ tcvitals_url' = IF outcome = "ok" THEN dt_to_fetch ELSE tcvitals_url
           /\ dt_index' = dt_index + 1
           /\ pc' = IF dt_index = Len(possible_times) THEN "fetched" ELSE "fetch"
    /\ UNCHANGED <<now_utc, possible_times, line_num, line, parsed_point,
                   valid_lines, all_typhoons_parsed_data, result, rss_vars>>

\* One iteration of the fetch loop.  requests.get raises on a timeout and
\* leaves response as it was; raise_for_status raises on an HTTP error after
\* response was assigned; the handler of both resets response and goes on.
FetchAttempt ==
    /\ pc = "fetch"
    /\ dt_index <= Len(possible_times)
    /\ \E outcome \in Outcomes :
        LET dt_to_fetch == possible_times[dt_index]
        IN /\ fetched' = Append(fetched, [dt |-> dt_to_fetch, ok |-> outcome = "ok"])
           /\ IF outcome = "ok"
              THEN /\ response' = [url |-> dt_to_fetch, ok |-> TRUE]
                   /\ tcvitals_url' = dt_to_fetch
                   /\ dt_index' = dt_index
                   /\ pc' = "fetched"
              ELSE /\ response' = None
                   /\ tcvitals_url' = tcvitals_url
                   /\ dt_index' = dt_index + 1
                   /\ pc' = IF dt_index = Len(possible_times)
                            THEN "fetched" ELSE "fetch"
    /\ UNCHANGED <<now_utc, possible_times, line_num, line, parsed_point,
                   valid_lines, all_typhoons_parsed_data, result, rss_vars>>

\* After the loop: no response is the failure answer, else the body is split.
CheckResponse ==
    /\ pc = "fetched"
    /\ IF ~Truthy(response)
       THEN /\ result' = [status |-> 500, success |-> FALSE]
            /\ pc' = "done"
       ELSE /\ result' = result
            /\ pc' = "lines"
    /\ UNCHANGED <<now_utc, possible_times, dt_index, response, tcvitals_url,
                   fetched, line_num, line, parsed_point, valid_lines,
                   all_typhoons_parsed_data, rss_vars>>

\* One iteration of the loop over atcf_lines, on the next line of the body:
\* a blank or comment line is passed over, any other line is parsed and its
\* point, if there is one, is added to its group.
ConsumeLine ==
    /\ pc = "lines"
    /\ line_num < MaxLines
    /\ \/ \E l \in SkippedLines :
              /\ IsSkipped(l)
              /\ line' = l
              /\ UNCHANGED <<parsed_point, valid_lines, all_typhoons_parsed_data>>
       \/ \E lp \in ParsedLines :
              /\ ~IsSkipped(lp[1])
              /\ line' = lp[1]
              /\ parsed_point' = lp[2]
              /\ IF parsed_point' # None
                 THEN /\ all_typhoons_parsed_data' =
                             AddPoint(all_typhoons_parsed_data, parsed_point')
                      /\ valid_lines' = valid_lines + 1
                 ELSE UNCHANGED <<valid_lines, all_typhoons_parsed_data>>
    /\ line_num' = line_num + 1
    /\ UNCHANGED <<pc, now_utc, possible_times, dt_index, response, tcvitals_url,
                   fetched, result, rss_vars>>

\* The body has no more lines (it has at least one): select, sort, answer.
\* The selected group is sorted in place.
Finish ==
    /\ pc = "lines"
    /\ line_num >= 1
    /\ result' = FinalResponse(all_typhoons_parsed_data)
    /\ all_typhoons_parsed_data' =
          [k \in DOMAIN all_typhoons_parsed_data |->
              IF k = max_key(all_typhoons_parsed_data)
              THEN SelectTyphoon(all_typhoons_parsed_data)
              ELSE all_typhoons_parsed_data[k]]
    /\ pc' = "done"
    /\ UNCHANGED <<now_utc, possible_times, dt_index, response, tcvitals_url,
                   fetched, line_num, line, parsed_point, valid_lines, rss_vars>>

Next ==
    \/ BuildPossibleTimes
    \/ FetchAttempt
    \/ CheckResponse
    \/ ConsumeLine
    \/ Finish

Spec == Init /\ [][Next]_vars

(***************************************************************************)
(* A request for /get-cwa-warnings                                         *)
(***************************************************************************)
InitRss ==
    /\ TyphoonIdle
    /\ rss_pc = "start"
    /\ items = <<>>
    /\ warnings = <<>>
    /\ rss_result = None

\* requests.get, raise_for_status and ET.fromstring: a failure of either is
\* answered with status 500.
FetchFeed ==
    /\ rss_pc = "start"
    /\ \E outcome \in FeedOutcomes :
        IF outcome = "ok"
        THEN rss_pc' = "items" /\ rss_result' = rss_result
        ELSE rss_pc' = "done" /\ rss_result' = [status |-> 500, error |-> outcome]
    /\ UNCHANGED <<items, warnings, typhoon_vars>>

\* One iteration of the loop over root.findall('.//item').  A TypeError of
\* the keyword test leaves the loop for the handler of Exception.
ConsumeItem ==
    /\ rss_pc = "items"
    /\ Len(items) < MaxItems
    /\ \E t \in 1..Len(TitleElements), d \in 1..Len(DescriptionElements),
          l \in 1..Len(LinkElements), p \in 1..Len(PubDateElements) :
        LET item == [title |-> TitleElements[t],
                     description |-> DescriptionElements[d],
                     link |-> LinkElements[l],
                     pubDate |-> PubDateElements[p]]
            relevant == is_relevant(text_or_empty(item.title),
                                    text_or_empty(item.description),
                                    keywords_to_filter)
        IN /\ items' = Append(items, item)
           /\ IF relevant = "TypeError"
              THEN /\ rss_pc' = "done"
                   /\ rss_result' = [status |-> 500, error |-> "Exception"]
                   /\ warnings' = warnings
              ELSE /\ rss_pc' = rss_pc
                   /\ rss_result' = rss_result
                   /\ warnings' = IF relevant = "relevant"
                                  THEN Append(warnings, Warning(item))
                                  ELSE warnings
    /\ UNCHANGED typhoon_vars

\* The feed has no more items: the warnings are returned.
ReturnWarnings ==
    /\ rss_pc = "items"
    /\ rss_result' = [status |-> 200, success |-> TRUE, warnings |-> warnings]
    /\ rss_pc' = "done"
    /\ UNCHANGED <<items, warnings, typhoon_vars>>

NextRss ==
    \/ FetchFeed
    \/ ConsumeItem
    \/ ReturnWarnings

SpecRss == InitRss /\ [][NextRss]_vars
(***************************************************************************)
(* Properties of get_international_typhoon_data and parse_atcf_line        *)
(***************************************************************************)
\* The last step consumed a line that parse_atcf_line accepted.
AcceptedStep ==
    /\ pc = "lines"
    /\ line_num' = line_num + 1
    /\ ~IsSkipped(line')
    /\ parsed_point' # None

\* The group of the accepted point before and after the step.
GroupBefore ==
    IF parsed_point'.cycloneId \in DOMAIN all_typhoons_parsed_data
    THEN all_typhoons_parsed_data[parsed_point'.cycloneId]
    ELSE NewGroup(parsed_point')

GroupAfter == all_typhoons_parsed_data'[parsed_point'.cycloneId]

ToPastOnly ==
    /\ GroupAfter.pastTrack = Append(GroupBefore.pastTrack, TrackPoint(parsed_point'))
    /\ GroupAfter.forecastTrack = GroupBefore.forecastTrack

ToForecastOnly ==
    /\ GroupAfter.forecastTrack =
           Append(GroupBefore.forecastTrack, ForecastPoint(parsed_point'))
    /\ GroupAfter.pastTrack = GroupBefore.pastTrack

ToNeither ==
    /\ GroupAfter.pastTrack = GroupBefore.pastTrack
    /\ GroupAfter.forecastTrack = GroupBefore.forecastTrack

\* C1, as claimed: every accepted point is appended to pastTrack when the
\* technique (field 3) of its line is "BEST" and its forecast hour is 0, and
\* to forecastTrack in every other case; never to both, never to neither.
C1_RoutedByTechniqueAndHour ==
    [][AcceptedStep =>
         IF Part(line', 3) = BEST /\ parsed_point'.forecastPeriod_hours = 0
         THEN ToPastOnly ELSE ToForecastOnly]_vars

\* C1, amended: every accepted point is appended to pastTrack when its
\* forecast hour is 0, whatever the technique of its line, to forecastTrack
\* when its forecast hour is above 0, and to neither list when its forecast
\* hour is below 0; it is never appended to both.
C1_RoutedByHourAlone ==
    [][AcceptedStep =>
         IF parsed_point'.forecastPeriod_hours = 0 THEN ToPastOnly
         ELSE IF parsed_point'.forecastPeriod_hours > 0 THEN ToForecastOnly
         ELSE ToNeither]_vars

\* The last line consumed was parsed (it is no blank or comment line).
LineParsed == pc \in {"lines", "done"} /\ line_num >= 1 /\ ~IsSkipped(line)

\* C1, witness: a line of technique OFCL and forecast hour 0 was accepted and
\* its point is the last of its group's pastTrack.
C1_Witness ==
    /\ pc = "lines"
    /\ LineParsed
    /\ parsed_point # None
    /\ Part(line, 3) = OFCL
    /\ parsed_point.forecastPeriod_hours = 0
    /\ LET past == all_typhoons_parsed_data[parsed_point.cycloneId].pastTrack
       IN Len(past) > 0 /\ past[Len(past)] = TrackPoint(parsed_point)

\* The handler answered with a track.
ReturnedTrack == pc = "done" /\ result.status = 200 /\ result.success

SortedByTime(track) ==
    \A i, j \in 1..Len(track) : i < j => ~StrLess(track[j].time, track[i].time)

SortedByForecastPeriod(track) ==
    \A i, j \in 1..Len(track) :
        i < j => track[i].forecastPeriod_hours <= track[j].forecastPeriod_hours

C3_CurrentPositionIsLatest ==
    ReturnedTrack =>
        LET past == result.typhoon.pastTrack
            current == result.typhoon.currentPosition
        IN /\ SortedByTime(past)
           /\ (current = None) <=> (Len(past) = 0)
           /\ Len(past) > 0 =>
                 /\ current = past[Len(past)]
                 /\ \A i \in 1..Len(past) : ~StrLess(current.time, past[i].time)

\* C3, witness: a track was returned whose currentPosition is not the point
\* that the loop over the lines left in currentPosition (the last 0-hour
\* point of the selected cyclone).
C3_Witness ==
    /\ ReturnedTrack
    /\ LineParsed
    /\ parsed_point # None
    /\ parsed_point.forecastPeriod_hours = 0
    /\ parsed_point.cycloneId = result.typhoon.id
    /\ Len(result.typhoon.pastTrack) >= 2
    /\ result.typhoon.currentPosition # TrackPoint(parsed_point)

\* The last line consumed has the minimum field count, a timestamp strptime
\* parses, and numeric latitude, longitude and forecast period.
LineWellFormedButWindPressure ==
    /\ LineParsed
    /\ Len(line) >= MinParts
    /\ strptime(Part(line, 2)) # None
    /\ IsNumeric(DropLast(Part(line, 6)))
    /\ IsNumeric(DropLast(Part(line, 7)))
    /\ IsNumeric(Part(line, 5))

NonNumericWindOrPressure ==
    ~IsNumeric(Part(line, 8)) \/ ~IsNumeric(Part(line, 9))

\* C4, as claimed: a line that is well formed but for a non-numeric max wind
\* (field 8) or central pressure (field 9) still yields a point, with
\* windSpeed_knots (pressure_hpa) set to 0.
C4_WindPressureDefaultToZero ==
    (LineWellFormedButWindPressure /\ NonNumericWindOrPressure) =>
        /\ parsed_point # None
        /\ ~IsNumeric(Part(line, 8)) => parsed_point.windSpeed_knots = 0
        /\ ~IsNumeric(Part(line, 9)) => parsed_point.pressure_hpa = 0

\* C4, amended: a line that is well formed but for a non-numeric max wind
\* (field 8) or central pressure (field 9) is rejected: parse_atcf_line
\* returns None for it and no point is made.
C4_NonNumericWindPressureRejected ==
    (LineWellFormedButWindPressure /\ NonNumericWindOrPressure) =>
        parsed_point = None

\* C4, witness: such a line with a non-numeric wind was consumed.
C4_Witness ==
    /\ LineWellFormedButWindPressure
    /\ ~IsNumeric(Part(line, 8))
    /\ parsed_point = None

\* C5, as claimed: no track is returned with pastTrack and forecastTrack
\* both empty.
C5_NoEmptyTrackReturned ==
    ReturnedTrack =>
        Len(result.typhoon.pastTrack) + Len(result.typhoon.forecastTrack) > 0

RECURSIVE TotalPoints(_, _)
TotalPoints(data, ids) ==
    IF ids = {} THEN 0
    ELSE LET k == CHOOSE x \in ids : TRUE
         IN Len(data[k].pastTrack) + Len(data[k].forecastTrack)
            + TotalPoints(data, ids \ {k})

\* C6, as claimed: once the bulletin is consumed, the points of all
\* pastTrack and forecastTrack lists are as many as the lines accepted.
C6_PointsEqualValidLines ==
    (pc = "done" /\ result.status = 200) =>
        TotalPoints(all_typhoons_parsed_data, DOMAIN all_typhoons_parsed_data)
            = valid_lines

\* The last line consumed is well formed but, perhaps, for its timestamp.
LineWellFormedButTimestamp ==
    /\ LineParsed
    /\ Len(line) >= MinParts
    /\ IsNumeric(DropLast(Part(line, 6)))
    /\ IsNumeric(DropLast(Part(line, 7)))
    /\ IsNumeric(Part(line, 8))
    /\ IsNumeric(Part(line, 9))
    /\ IsNumeric(Part(line, 5))

\* month, day, hour of a calendar date
ValidDate(y, m, d, h) ==
    m \in 1..12 /\ d \in 1..DaysInMonth(y, m) /\ h \in 0..23

\* The date an 8-digit YYMMDDHH or a 10-digit YYYYMMDDHH value stands for
\* (the century of YY inferred: 20 below 50, else 19), None for neither.
EncodedDate(s) ==
    IF AllDigits(s) /\ Len(s) = 8
    THEN LET yy == DigitsValue(SubSeq(s, 1, 2))
             y == IF yy < 50 THEN 2000 + yy ELSE 1900 + yy
             m == DigitsValue(SubSeq(s, 3, 4))
             d == DigitsValue(SubSeq(s, 5, 6))
             h == DigitsValue(SubSeq(s, 7, 8))
         IN IF ValidDate(y, m, d, h) THEN [dt |-> <<y, m, d, h>>] ELSE None
    ELSE IF AllDigits(s) /\ Len(s) = 10
    THEN LET y == DigitsValue(SubSeq(s, 1, 4))
             m == DigitsValue(SubSeq(s, 5, 6))
             d == DigitsValue(SubSeq(s, 7, 8))
             h == DigitsValue(SubSeq(s, 9, 10))
         IN IF y >= 1 /\ ValidDate(y, m, d, h) THEN [dt |-> <<y, m, d, h>>] ELSE None
    ELSE None

CandidateSet(now) ==
    {t \in {replace_hour(now, h) : h \in {0, 6, 12, 18}} : t <= now}
    \cup {replace_hour(now, h) - HoursPerDay : h \in {0, 6, 12, 18}}

\* The i-th newest time of a set.
Newest(S, i) == CHOOSE t \in S : Cardinality({u \in S : u > t}) = i - 1

\* C10: the requests go to the candidate cycle times from the newest to the
\* oldest, none is sent after a request succeeded, the body parsed is that
\* of the one successful request, and the failure answer (status 500) is
\* given, with no line parsed, exactly when every candidate failed.
C10_FallbackNewestFirst ==
    pc \in {"fetch", "fetched", "lines", "done"} =>
        LET S == CandidateSet(now_utc)
        IN /\ Len(fetched) <= Cardinality(S)
           /\ \A i \in 1..Len(fetched) : fetched[i].dt = Newest(S, i)
           /\ \A i \in 1..(Len(fetched) - 1) : ~fetched[i].ok
           /\ (pc = "lines" \/ line_num > 0 \/ (pc = "done" /\ result.status = 200)) =>
                 /\ Len(fetched) > 0
                 /\ fetched[Len(fetched)].ok
                 /\ response # None
                 /\ response.url = fetched[Len(fetched)].dt
           /\ pc = "done" =>
                 (result.status = 500 <=>
                     /\ Len(fetched) = Cardinality(S)
                     /\ \A i \in 1..Len(fetched) : ~fetched[i].ok)
           /\ (pc = "done" /\ result.status = 500) => line_num = 0

\* C10, witness: a track was returned from the third candidate after the
\* two newer ones failed.
C10_Witness ==
    /\ ReturnedTrack
    /\ Len(fetched) = 3
    /\ ~fetched[1].ok /\ ~fetched[2].ok /\ fetched[3].ok

(***************************************************************************)
(* Properties of get_cwa_warnings                                          *)
(***************************************************************************)
\* The text of a sub-element has a keyword of the fixed set.
HasKeyword(element) ==
    /\ element # None
    /\ element.text # None
    /\ \E k \in 1..Len(keywords_to_filter) :
          Contains(element.text, keywords_to_filter[k])

ItemHasKeyword(item) == HasKeyword(item.title) \/ HasKeyword(item.description)

\* the title, or "" when the item has no title element or an empty one
TextOf(element) ==
    IF element = None \/ element.text = None THEN <<>> ELSE element.text

\* C8, as claimed: for a feed of N items of which K have a keyword in the
\* title or the description, exactly those K items are returned as
\* warnings, in the order of the feed.
C8_ExactlyTheKeywordItems ==
    (rss_pc = "done" /\ Len(items) > 0) =>
        /\ rss_result.status = 200
        /\ Len(rss_result.warnings) =
               Len(SelectSeq(items, ItemHasKeyword))
        /\ \A i \in 1..Len(rss_result.warnings) :
               /\ rss_result.warnings[i].title =
                      TextOf(SelectSeq(items, ItemHasKeyword)[i].title)
               /\ rss_result.warnings[i].description =
                      TextOf(SelectSeq(items, ItemHasKeyword)[i].description)

\* C9, as claimed: whether a sub-element is absent, empty or has text, each
\* extracted field is a string, never null, and the items never turn the
\* answer into a failure.
C9_FieldsAreStringsNoFailure ==
    /\ \A i \in 1..Len(warnings) :
          /\ warnings[i].title # None
          /\ warnings[i].link # None
          /\ warnings[i].description # None
          /\ warnings[i].pubDate # None
    /\ (rss_pc = "done" /\ Len(items) > 0) => rss_result.status = 200

=============================================================================
